---- MODULE Spec2Model ----
(***************************************************************************)
(* The synthetic-data generation subsystem of chefbot-sim: the per-kind    *)
(* generator settings stores (app/core/tasks/*_generation.py), their       *)
(* get/update functions, and the APScheduler jobs they reschedule.         *)
(*                                                                         *)
(* Weights are held in hundredths (0.70 is 70).  Python lists are objects  *)
(* on a heap (lists) and are named by reference, as in the source: the     *)
(* stores, the dicts handed out by the getters and the callers' argument   *)
(* lists may all name the same list object.                                *)
(*                                                                         *)
(* The source runs on threads (the façade's request handlers and the       *)
(* scheduler's worker pool), so an update call is a sequence of steps      *)
(* (calls[c].pc), one per access to shared state; other threads may run    *)
(* between any two of them.                                                *)
(***************************************************************************)
EXTENDS Integers, Sequences, FiniteSets, TLC

\* ---------------------------------------------------------------- bounds
\* The number of update calls a behaviour may start.
MaxCalls == 2
\* The number of times a holder of a returned settings dict mutates it.
MaxMut == 1
\* The last instant of the scheduler's clock (seconds).
MaxTime == 4
\* The interval the configuration gives every job at import time
\* (settings.*_GENERATION_INTERVAL; app/core/config is configuration).
DefaultInterval == 2
\* The number of update calls made while the scheduler's clock runs.
MaxSchedCalls == 1
\* The number of job executions that may still be running when a second passes.
MaxOverrun == 1
\* The number of start_scheduler() and stop_scheduler() calls of a behaviour.
MaxLifeCalls == 3
\* The number of delivery ticks made one after the other.
MaxTicks == 2
\* The number of ticks (or admin requests) each of the racing threads makes.
MaxRaceTicks == 1
\* The largest per-tick count (settings.<K>_GENERATION_COUNT) of a tick.
MaxCount == 2
\* The most recipes in the database of the order generator's part.
MaxRecipes == 5

\* ------------------------------------------------------------- constants
\* 1.0 and 0.01 in hundredths.
One == 100
Tolerance == 1
\* max_instances of every scheduled job.
MaxInstances == 1
\* The default male_weight, 0.5.
DefaultMaleWeight == 50

SettingsKinds == {"user", "subscription", "order"}
ListKinds == {"subscription", "order"}
Callers == {"c1", "c2"}
JobIds ==
    {"generate_users", "generate_recipes", "generate_subscriptions",
     "generate_orders", "generate_deliveries"}

\* The id of the job of a kind (scheduler.get_job("generate_orders"), ...).
JobOf(k) ==
    CASE k = "user" -> "generate_users"
      [] k = "subscription" -> "generate_subscriptions"
      [] k = "order" -> "generate_orders"

\* len(SUBSCRIPTION_STATUSES) = 3 and len(ORDER_STATUSES) = 4: the length
\* update_*_generation_settings requires of status_weights.
RequiredLen(k) == IF k = "subscription" THEN 3 ELSE 4

\* The default status_weights of the two list kinds.
DefaultWeights(k) ==
    IF k = "subscription" THEN <<70, 15, 15>> ELSE <<15, 20, 60, 5>>

VARIABLES
    settings,   \* settings[k]: the module-level dict _<k>_generation_settings
    lists,      \* the heap of list objects: lists[r] is the list with reference r
    calls,      \* calls[c]: the update call thread c is in, and where
    ncalls,     \* update calls started so far
    snap,       \* the dict the last get_*_generation_settings call returned
    nmut,       \* mutations of returned dicts so far
    jobs,       \* jobs[j]: the scheduler's job j
    now,        \* the scheduler's clock
    sched,      \* the scheduler object and the task modules imported so far
    store,      \* the database tables
    gen,        \* the generator ticks and admin requests under way
    bulk        \* the bulk settings request under way

vars == <<settings, lists, calls, ncalls, snap, nmut, jobs, now, sched, store, gen, bulk>>

\* The variables of the settings stores and their callers, of the scheduler,
\* and of the database with the threads that write to it.
settingsVars == <<settings, lists, calls, ncalls, snap, nmut, bulk>>
schedVars == <<jobs, now, sched>>
dataVars == <<store, gen>>

\* ------------------------------------------------------------ arithmetic
RECURSIVE SumSeq(_)
SumSeq(s) == IF s = <<>> THEN 0 ELSE Head(s) + SumSeq(Tail(s))

Abs(x) == IF x < 0 THEN 0 - x ELSE x

\* The weight vectors of this model whose hundredths sum to 0.99 or 1.01 and
\* for which Python's double arithmetic evaluates
\*     abs(sum(status_weights) - 1.0) > 0.01
\* to False.  On that boundary the result is decided by rounding:
\* abs(sum([0.01, 0.05, 0.93]) - 1.0) is 0.00999999999999998 (accepted) while
\* abs(sum([0.33, 0.33, 0.33]) - 1.0) is 0.010000000000000009 (rejected).
BoundaryRoundsInside == {<<1, 5, 93>>, <<0, 1, 5, 93>>}

\* abs(sum(status_weights) - 1.0) > 0.01, as the double arithmetic decides it:
\* exact away from the boundary, by rounding on it.
SumOutsideTolerance(w) ==
    LET s == SumSeq(w)
    IN  IF Abs(s - One) = Tolerance
        THEN w \notin BoundaryRoundsInside
        ELSE Abs(s - One) > Tolerance

\* StatusWeightsError without its length check.
StatusWeightsErrorNoLength(k, w) ==
    IF SumOutsideTolerance(w) THEN "status_weights must sum to approximately 1.0"
    ELSE ""

\* The checks update_<list kind>_generation_settings makes of status_weights:
\* "" when they pass, the ValueError's message otherwise.
StatusWeightsError(k, w) ==
    IF Len(w) # RequiredLen(k) THEN "status_weights must have exactly n values"
    ELSE IF SumOutsideTolerance(w) THEN "status_weights must sum to approximately 1.0"
    ELSE ""

\* not 0.0 <= male_weight <= 1.0
MaleWeightError(mw) ==
    IF ~(0 <= mw /\ mw <= One) THEN "male_weight must be between 0.0 and 1.0" ELSE ""

\* IntervalError with interval <= 1 for interval < 1.
IntervalErrorOffByOne(i) ==
    IF i <= 1 THEN "interval must be at least 1 second" ELSE ""

\* interval < 1
IntervalError(i) ==
    IF i < 1 THEN "interval must be at least 1 second" ELSE ""

\* ------------------------------------------------------------ the stores
\* A settings dict.  A key a kind's dict does not have is 0 here:
\* status_weights (a list reference, 0 is no list) for user, male_weight and
\* female_weight for the list kinds.
Dict(mw, fw, ref, i) ==
    [male_weight |-> mw, female_weight |-> fw, status_weights |-> ref, interval |-> i]

NoDict == Dict(0, 0, 0, 0)

\* get_<k>_generation_settings(): _<k>_generation_settings.copy(), a new dict
\* with the same values (the same list object under status_weights); the user
\* getter adds female_weight = 1.0 - male_weight to the copy.
GetSettings(k) ==
    IF k = "user"
    THEN [settings[k] EXCEPT !.female_weight = One - settings[k].male_weight]
    ELSE settings[k]

\* The weight vector a kind's store holds, by value.
StoredWeights(k) ==
    IF k = "user" THEN <<settings[k].male_weight>>
    ELSE lists[settings[k].status_weights]

\* The weights the generator of a kind hands to random.choices.
SamplerWeights(k) ==
    IF k = "user"
    THEN <<settings[k].male_weight, One - settings[k].male_weight>>
    ELSE lists[settings[k].status_weights]

\* ------------------------------------------------------------- the calls
\* A thread's update call: its arguments, its place (pc), the interval read for
\* reschedule_job (secs), how it ended (result: "ok" or the ValueError's
\* message) with the dict returned (ret), and, for the record, its number
\* (id) and the stored weights and interval when it was entered (pre_w, pre_i).
IdleCall ==
    [pc |-> "idle", kind |-> "user", has_w |-> FALSE, w |-> <<>>, has_i |-> FALSE,
     i |-> 0, secs |-> 0, result |-> "", ret |-> NoDict,
     id |-> 0, pre_w |-> <<>>, pre_i |-> 0]

\* The arguments the model calls the update functions with.
WeightInputs(k) ==
    CASE k = "user" -> {<<30>>, <<100>>, <<110>>}
      [] k = "subscription" ->
            {<<80, 10, 10>>, <<33, 33, 33>>, <<1, 5, 93>>, <<50, 50>>, <<50, 30, 10>>}
      [] k = "order" ->
            {<<25, 25, 25, 25>>, <<25, 25, 25, 24>>, <<0, 1, 5, 93>>, <<50, 50, 0>>,
             <<40, 40, 40, 0>>}

IntervalInputs == {0, 1, 3}

\* A thread enters update_<k>_generation_settings(weights, interval); an
\* argument that is None has has_w / has_i FALSE.
StartUpdate(c, k, has_w, w, has_i, i) ==
    /\ calls[c].pc \in {"idle", "done"}
    /\ ncalls < MaxCalls
    /\ ncalls' = ncalls + 1
    /\ calls' = [calls EXCEPT ![c] =
            [IdleCall EXCEPT !.pc = "check_weights", !.kind = k,
                !.has_w = has_w, !.w = w, !.has_i = has_i, !.i = i,
                !.id = ncalls + 1,
                !.pre_w = StoredWeights(k), !.pre_i = settings[k].interval]]
    /\ UNCHANGED <<settings, lists, snap, nmut, jobs, now, sched, store, gen>>

Raise(c, msg) ==
    calls' = [calls EXCEPT ![c].pc = "done", ![c].result = msg]

\* if male_weight is not None: validate, then store it.
CheckMaleWeight(c) ==
    LET cl == calls[c] IN
    /\ cl.pc = "check_weights"
    /\ cl.kind = "user"
    /\ IF ~cl.has_w
       THEN /\ calls' = [calls EXCEPT ![c].pc = "check_interval"]
            /\ UNCHANGED settings
       ELSE IF MaleWeightError(cl.w[1]) # ""
       THEN /\ Raise(c, MaleWeightError(cl.w[1]))
            /\ UNCHANGED settings
       ELSE /\ settings' = [settings EXCEPT !["user"].male_weight = cl.w[1]]
            /\ calls' = [calls EXCEPT ![c].pc = "check_interval"]
    /\ UNCHANGED <<lists, ncalls, snap, nmut, jobs, now, sched, store, gen, bulk>>

\* if status_weights is not None: validate, then store the caller's list
\* object itself under "status_weights".
CheckStatusWeights(c) ==
    LET cl == calls[c] IN
    /\ cl.pc = "check_weights"
    /\ cl.kind \in ListKinds
    /\ IF ~cl.has_w
       THEN /\ calls' = [calls EXCEPT ![c].pc = "check_interval"]
            /\ UNCHANGED <<settings, lists>>
       ELSE IF StatusWeightsError(cl.kind, cl.w) # ""
       THEN /\ Raise(c, StatusWeightsError(cl.kind, cl.w))
            /\ UNCHANGED <<settings, lists>>
       ELSE /\ lists' = Append(lists, cl.w)
            /\ settings' = [settings EXCEPT ![cl.kind].status_weights = Len(lists) + 1]
            /\ calls' = [calls EXCEPT ![c].pc = "check_interval"]
    /\ UNCHANGED <<ncalls, snap, nmut, jobs, now, sched, store, gen, bulk>>

\* if interval is not None: validate, then store it.
CheckInterval(c) ==
    LET cl == calls[c] IN
    /\ cl.pc = "check_interval"
    /\ IF ~cl.has_i
       THEN /\ calls' = [calls EXCEPT ![c].pc = "return"]
            /\ UNCHANGED settings
       ELSE IF IntervalError(cl.i) # ""
       THEN /\ Raise(c, IntervalError(cl.i))
            /\ UNCHANGED settings
       ELSE /\ settings' = [settings EXCEPT ![cl.kind].interval = cl.i]
            /\ calls' = [calls EXCEPT ![c].pc = "get_job"]
    /\ UNCHANGED <<lists, ncalls, snap, nmut, jobs, now, sched, store, gen, bulk>>

\* GetJob taking the job for absent: no reschedule follows.
GetJobNotFound(c) ==
    /\ calls[c].pc = "get_job"
    /\ calls' = [calls EXCEPT ![c].pc = "return"]
    /\ UNCHANGED <<settings, lists, ncalls, snap, nmut, jobs, now, sched, store, gen, bulk>>

\* _update_scheduler_job(): job = scheduler.get_job(id); if job: the argument
\* seconds=_<k>_generation_settings["interval"] is read from the store.
GetJob(c) ==
    LET cl == calls[c] IN
    /\ cl.pc = "get_job"
    /\ IF JobOf(cl.kind) \in DOMAIN jobs
       THEN calls' = [calls EXCEPT ![c].pc = "reschedule",
                                   ![c].secs = settings[cl.kind].interval]
       ELSE calls' = [calls EXCEPT ![c].pc = "return"]
    /\ UNCHANGED <<settings, lists, ncalls, snap, nmut, jobs, now, sched, store, gen, bulk>>

\* RescheduleJob with a trigger that fires at once.
RescheduleJobFiresNow(j, secs) ==
    jobs' = [jobs EXCEPT ![j].interval = secs, ![j].next_run_time = now]

\* RescheduleJob applied to every job of the scheduler.
RescheduleAllJobs(j, secs) ==
    jobs' = [x \in DOMAIN jobs |->
                [jobs[x] EXCEPT !.interval = secs, !.next_run_time = now + secs]]

\* scheduler.reschedule_job(id, trigger="interval", seconds=secs): the job
\* gets a new interval trigger, whose first fire time is now + secs.
RescheduleJob(j, secs) ==
    jobs' = [jobs EXCEPT ![j].interval = secs, ![j].next_run_time = now + secs]

Reschedule(c) ==
    LET cl == calls[c] IN
    /\ cl.pc = "reschedule"
    /\ RescheduleJob(JobOf(cl.kind), cl.secs)
    /\ calls' = [calls EXCEPT ![c].pc = "return"]
    /\ UNCHANGED <<settings, lists, ncalls, snap, nmut, now, sched, store, gen, bulk>>

\* return _<k>_generation_settings.copy()  (user: get_user_generation_settings())
Return(c) ==
    LET cl == calls[c] IN
    /\ cl.pc = "return"
    /\ calls' = [calls EXCEPT ![c].pc = "done", ![c].result = "ok",
                              ![c].ret = GetSettings(cl.kind)]
    /\ UNCHANGED <<settings, lists, ncalls, snap, nmut, jobs, now, sched, store, gen, bulk>>

\* How an update call ended.
Done(c) == calls[c].pc = "done"
Failed(c) == Done(c) /\ calls[c].result \notin {"", "ok"}
Succeeded(c) == Done(c) /\ calls[c].result = "ok"

\* ------------------------------------------------------------ the reader
\* The update calls on kind k that are under way (entered, not yet returned
\* or raised), by their number.
InFlight(k) ==
    {calls[c].id : c \in {c \in Callers : calls[c].pc \notin {"idle", "done"}
                                          /\ calls[c].kind = k}}

\* A caller of get_<k>_generation_settings() keeps the dict it returns.  With
\* it the model records what the read saw: the weights by value (seen_w), the
\* update calls under way (during), whether a returned dict had been changed
\* before (clean).
ReadSettings(k) ==
    /\ snap' = [kind |-> k, d |-> GetSettings(k), taken |-> TRUE,
                seen_w |-> StoredWeights(k), during |-> InFlight(k),
                clean |-> nmut = 0]
    /\ snap # snap'
    /\ UNCHANGED <<settings, lists, calls, ncalls, nmut, jobs, now, sched, store, gen, bulk>>

\* The holder assigns a key of the returned dict: d["interval"] = v.
SnapSetInterval(v) ==
    /\ snap.taken
    /\ nmut < MaxMut
    /\ nmut' = nmut + 1
    /\ snap' = [snap EXCEPT !.d.interval = v]
    /\ UNCHANGED <<settings, lists, calls, ncalls, jobs, now, sched, store, gen, bulk>>

\* The holder overwrites an element of the returned weight vector:
\* d["status_weights"][n] = v.
SnapSetItem(n, v) ==
    /\ snap.taken
    /\ snap.kind \in ListKinds
    /\ nmut < MaxMut
    /\ n \in 1..Len(lists[snap.d.status_weights])
    /\ nmut' = nmut + 1
    /\ lists' = [lists EXCEPT ![snap.d.status_weights][n] = v]
    /\ UNCHANGED <<settings, calls, ncalls, snap, jobs, now, sched, store, gen, bulk>>

\* The holder appends to the returned weight vector:
\* d["status_weights"].append(v).
SnapAppend(v) ==
    /\ snap.taken
    /\ snap.kind \in ListKinds
    /\ nmut < MaxMut
    /\ nmut' = nmut + 1
    /\ lists' = [lists EXCEPT ![snap.d.status_weights] = Append(@, v)]
    /\ UNCHANGED <<settings, calls, ncalls, snap, jobs, now, sched, store, gen, bulk>>

\* --------------------------------------------------------- the scheduler
\* The jobs whose fire time has come: the scheduler thread looks for them
\* only while the scheduler runs.
Due == {j \in DOMAIN jobs : sched.running /\ jobs[j].next_run_time <= now}

\* The scheduler thread's pass over the due jobs (an interval trigger with
\* max_instances=1): a due job is submitted to the executor unless
\* max_instances executions of it are still running, in which case this run
\* is skipped; either way its next fire time is the fire time plus the
\* interval.  The pass holds the job store's lock, as reschedule_job does.
\* SubmitJob without the max_instances test.
SubmitJobAlways(job) ==
    [job EXCEPT !.outcome = "submitted", !.instances = job.instances + 1,
                !.next_run_time = job.next_run_time + job.interval]

SubmitJob(job) ==
    IF job.instances >= MaxInstances
    THEN [job EXCEPT !.outcome = "max_instances",
                     !.next_run_time = job.next_run_time + job.interval]
    ELSE [job EXCEPT !.outcome = "submitted", !.instances = job.instances + 1,
                     !.next_run_time = job.next_run_time + job.interval]

\* A job that start() finds with a fire time already past (it was
\* rescheduled before the scheduler ran): the fire times up to now coalesce
\* into the last of them, the next fire time is one interval after it.
LastRunTime(job) ==
    job.next_run_time + job.interval * ((now - job.next_run_time) \div job.interval)

Coalesce(job) == [job EXCEPT !.next_run_time = LastRunTime(job)]

ProcessJobs ==
    /\ Due # {}
    /\ jobs' = [j \in DOMAIN jobs |->
                IF j \in Due THEN SubmitJob(Coalesce(jobs[j])) ELSE jobs[j]]
    /\ UNCHANGED <<settings, lists, calls, ncalls, snap, nmut, now, sched, store, gen, bulk>>

\* An execution of job j ends: generate_<kind>_task returns.
FinishJob(j) ==
    /\ j \in DOMAIN jobs
    /\ jobs[j].instances > 0
    /\ jobs' = [jobs EXCEPT ![j].instances = @ - 1]
    /\ UNCHANGED <<settings, lists, calls, ncalls, snap, nmut, now, sched, store, gen, bulk>>

\* The jobs with an execution in flight.
Running == {j \in DOMAIN jobs : jobs[j].instances > 0}

\* A second passes; the scheduler thread wakes at each fire time, so no job
\* is due when the clock moves on.
AdvanceTime ==
    /\ now < MaxTime
    /\ Due = {}
    /\ Cardinality(Running) <= MaxOverrun
    /\ now' = now + 1
    /\ UNCHANGED <<settings, lists, calls, ncalls, snap, nmut, jobs, sched, store, gen, bulk>>

\* ---------------------------------------------------------- the database
\* The tables, each a sequence of rows in insertion order; a row's id is its
\* place in the sequence.
EmptyStore ==
    [users |-> <<>>, subscriptions |-> <<>>, recipes |-> <<>>, orders |-> <<>>,
     deliveries |-> <<>>]

\* The five generator kinds, and those whose task function starts with
\*     if not settings.<K>_GENERATION_ENABLED or settings.<K>_GENERATION_COUNT <= 0: return
Kinds == {"user", "recipe", "subscription", "order", "delivery"}
GatedKinds == {"user", "recipe", "order"}

\* The table a kind's generator writes to.
TableOf(k) ==
    CASE k = "user" -> "users"
      [] k = "recipe" -> "recipes"
      [] k = "subscription" -> "subscriptions"
      [] k = "order" -> "orders"
      [] k = "delivery" -> "deliveries"

SUBSCRIPTION_STATUSES == <<"Active", "Paused", "Cancelled">>
ORDER_STATUSES == <<"pending", "shipped", "delivered", "cancelled">>
DELIVERY_STATUSES == <<"delivered", "delayed", "failed", "in_transit">>

\* The delivery generator's weights, [0.60, 0.15, 0.05, 0.20], in hundredths.
STATUS_WEIGHTS == <<60, 15, 5, 20>>

\* Dates are whole days; NoDate is None.  Today is the day the ticks run
\* (datetime.utcnow()).
NoDate == 0 - 1
Today == 100

\* A recipe's price is in hundredths; NoPrice is None.
NoPrice == 0 - 1

\* if price: -- None and Decimal("0.00") are both false.
Truthy(price) == price # NoPrice /\ price # 0

\* The ids (places) of the rows of a table that get_all returns: those whose
\* deleted_at is null.
LiveIn(st, t) == {i \in 1..Len(st[t]) : ~st[t][i].deleted}

Live(t) == LiveIn(store, t)

\* ActiveSubscriptions without the status filter.
AllSubscriptions == Live("subscriptions")

\* subscription_repo.get_all(status="Active", limit=1000)
ActiveSubscriptions ==
    {i \in Live("subscriptions") : store.subscriptions[i].status = "Active"}

\* delivery_repo.get_by_order_id(order_id): the ids of the deliveries of an
\* order (the code takes the first, or None).
DeliveriesOf(st, oid) ==
    {i \in 1..Len(st.deliveries) : st.deliveries[i].order_id = oid}

\* OrdersWithoutDelivery without the filter on existing deliveries.
AllOrders == Live("orders")

\* The orders get_all returns that have no delivery.
OrdersWithoutDelivery ==
    {o \in Live("orders") : DeliveriesOf(store, o) = {}}

\* The threads that write to the database: two that run generator ticks and
\* one that serves an admin request.
Workers == {"t1", "t2", "a1"}
Tickers == {"t1", "t2"}

\* A thread's tick or request.  kind, enabled and count are the kind and the
\* configuration the tick reads (settings.<K>_GENERATION_ENABLED, _COUNT);
\* session is the tick's SessionLocal() ("none", "open", "closed") and sid
\* the identity of that session object (0 when there is none); users,
\* subs and recs are the rows the tick loaded, selected its sample of orders;
\* todo counts the _create_<kind> calls still to make, attempted those made,
\* created those that returned True, errors those in which an exception was
\* caught; made are the ids of the rows the tick stored; raised says the tick
\* ended with an exception; order_id and result are an admin request's order
\* and its HTTP status; n numbers the thread's ticks and requests; built holds
\* the row the last repository.create call of the tick was given; faults
\* counts the create calls that failed although the database's constraints
\* admitted the row (the connection was lost, say); before is, for the
\* record, the database the tick found; op, id, found and total are the last
\* call on the user repository or the users endpoints, the id it was given,
\* the row it returned (<<>> for None) and the total of a listing.
IdleWorker ==
    [pc |-> "idle", kind |-> "user", enabled |-> FALSE, count |-> 0,
     session |-> "none", sid |-> 0, users |-> {}, subs |-> {}, recs |-> {},
     selected |-> <<>>, todo |-> 0, attempted |-> 0, created |-> 0, errors |-> 0,
     made |-> <<>>, raised |-> FALSE, order_id |-> 0, result |-> 0, n |-> 0,
     built |-> <<>>, faults |-> 0, before |-> EmptyStore,
     op |-> "", id |-> 0, found |-> <<>>, total |-> 0]

Max(a, b) == IF a > b THEN a ELSE b
Min(a, b) == IF a < b THEN a ELSE b

\* The sequences without repetition of m elements of S: what
\* random.sample(S, m) may return.
RECURSIVE Samples(_, _)
Samples(S, m) ==
    IF m = 0 THEN {<<>>}
    ELSE UNION {{<<x>> \o t : t \in Samples(S \ {x}, m - 1)} : x \in S}

\* _calculate_total_amount(recipes, recipe_prices): the sum of the prices of
\* the sampled recipes that have one (Decimal(str(price)) of a Numeric(10, 2)
\* column is that price exactly); a total of zero is replaced by
\* round(random.uniform(20.00, 100.00), 2), here fallback.
RECURSIVE SumPrices(_, _)
SumPrices(recs, rows) ==
    IF recs = <<>> THEN 0
    ELSE (IF Truthy(rows[Head(recs)].price) THEN rows[Head(recs)].price ELSE 0)
         + SumPrices(Tail(recs), rows)

CalculateTotalAmount(recs, rows, fallback) ==
    IF SumPrices(recs, rows) = 0 THEN fallback ELSE SumPrices(recs, rows)

\* --------------------------------------------------- the generator ticks
\* The values of settings.<K>_GENERATION_COUNT the ticks run with.
Counts == {0 - 1, 0} \cup (1..MaxCount)

\* The prices _create_recipe draws, round(random.uniform(15.99, 34.99), 2),
\* and the amounts _calculate_total_amount falls back to,
\* round(random.uniform(20.00, 100.00), 2): two of each.
TickPrices == {1599, 2000}
FallbackAmounts == {2000, 10000}

\* The calls of task functions and request handlers so far.
Entered == gen["t1"].n + gen["t2"].n + gen["a1"].n

\* SessionLocal(): a new session object on every call.
SessionLocal == Entered + 1

\* generate_<kind>_task is entered with the configuration (en, n): the gated
\* kinds return at once when disabled or when the count is not positive; the
\* others, and the gated ones otherwise, open a session.
TickBegin(w, k, en, n) ==
    /\ gen[w].pc \in {"idle", "done"}
    /\ gen' = [gen EXCEPT ![w] =
            IF k \in GatedKinds /\ (~en \/ n <= 0)
            THEN [IdleWorker EXCEPT !.pc = "done", !.kind = k, !.enabled = en,
                                    !.count = n, !.n = gen[w].n + 1,
                                    !.before = store]
            ELSE [IdleWorker EXCEPT !.pc = "load", !.kind = k, !.enabled = en,
                                    !.count = n, !.n = gen[w].n + 1,
                                    !.session = "open", !.sid = SessionLocal,
                                    !.before = store]]
    /\ UNCHANGED <<settingsVars, schedVars, store>>

\* EarlyReturn with the return before the try statement: nothing closes the
\* session.
ReturnOutsideTry(w) ==
    gen' = [gen EXCEPT ![w].pc = "done", ![w].before = store]

\* return inside try: the finally clause closes the session.
EarlyReturn(w) ==
    gen' = [gen EXCEPT ![w].pc = "done", ![w].session = "closed",
                       ![w].before = store]

\* An exception leaves the task function through the finally clause.
TickRaises(w) ==
    gen' = [gen EXCEPT ![w].pc = "done", ![w].session = "closed", ![w].raised = TRUE,
                       ![w].before = store]

\* The reads a tick makes before its batch: the subscription tick loads the
\* users, the order tick the Active subscriptions and the recipes, the
\* delivery tick the orders without a delivery, of which it samples
\* min(count, their number); a tick with nothing to work on returns.
\* random.sample raises ValueError for a negative sample size.
TickLoad(w) ==
    LET g == gen[w] IN
    /\ g.pc = "load"
    /\ CASE g.kind \in {"user", "recipe"} ->
                gen' = [gen EXCEPT ![w].pc = "create", ![w].todo = g.count,
                                   ![w].before = store]
         [] g.kind = "subscription" ->
                IF Live("users") = {} THEN EarlyReturn(w)
                ELSE gen' = [gen EXCEPT ![w].pc = "create", ![w].users = Live("users"),
                                        ![w].todo = Max(g.count, 0), ![w].before = store]
         [] g.kind = "order" ->
                IF ActiveSubscriptions = {} \/ Live("recipes") = {} THEN EarlyReturn(w)
                ELSE gen' = [gen EXCEPT ![w].pc = "create", ![w].subs = ActiveSubscriptions,
                                        ![w].recs = Live("recipes"), ![w].todo = g.count,
                                        ![w].before = store]
         [] g.kind = "delivery" ->
                IF OrdersWithoutDelivery = {} THEN EarlyReturn(w)
                ELSE IF g.count < 0 THEN TickRaises(w)
                ELSE \E sel \in Samples(OrdersWithoutDelivery,
                                        Min(g.count, Cardinality(OrdersWithoutDelivery))) :
                        gen' = [gen EXCEPT ![w].pc = "create", ![w].selected = sel,
                                           ![w].todo = Len(sel), ![w].before = store]
    /\ UNCHANGED <<settingsVars, schedVars, store>>

\* The outcomes random.choices(statuses, weights=weights) can return: those
\* whose weight is positive.
WeightedChoices(statuses, weights) ==
    {statuses[i] : i \in {i \in 1..Len(statuses) : i <= Len(weights) /\ weights[i] > 0}}

\* random.choices(SUBSCRIPTION_STATUSES, weights=<the stored status_weights>)
StatusChoices == WeightedChoices(SUBSCRIPTION_STATUSES, SamplerWeights("subscription"))

\* _select_weighted_status() of the order generator.
SelectWeightedStatus == WeightedChoices(ORDER_STATUSES, SamplerWeights("order"))

\* The values of random.randint(0, 90) the order ticks run with: the order
\* was placed days_ago days before today.
OrderDaysAgo == {0, 90}

\* The rows a _create_<kind> call of the tick may store.
\* NumRecipes with random.randint(0, ...).
NumRecipesFromZero(n) == 0..Min(4, n)

\* num_recipes = random.randint(1, min(4, len(available_recipes)))
NumRecipes(n) == 1..Min(4, n)

NewRows(g) ==
    CASE g.kind = "user" -> {[deleted |-> FALSE]}
      [] g.kind = "recipe" -> {[price |-> p, deleted |-> FALSE] : p \in TickPrices}
      [] g.kind = "subscription" ->
            {[user |-> u, status |-> st, deleted |-> FALSE] :
                u \in g.users, st \in StatusChoices}
      [] g.kind = "order" ->
            {[subscription |-> sb, recipes |-> r,
              total_amount |-> CalculateTotalAmount(r, store.recipes, f),
              status |-> st, order_date |-> Today - ago, delivery_date |-> NoDate,
              deleted |-> FALSE] :
                sb \in g.subs,
                r \in UNION {Samples(g.recs, m) : m \in NumRecipes(Cardinality(g.recs))},
                f \in FallbackAmounts, st \in SelectWeightedStatus, ago \in OrderDaysAgo}

\* AfterFailure letting the exception out of the tick.
FailureAborts(g) ==
    [g EXCEPT !.pc = "done", !.session = "closed", !.raised = TRUE,
              !.attempted = @ + 1, !.errors = @ + 1]

\* The tick after a _create_<kind> call that returned False: the except
\* clause has logged the exception, the batch goes on.
AfterFailure(g) ==
    [g EXCEPT !.todo = @ - 1, !.attempted = @ + 1, !.errors = @ + 1]

\* The tick after a _create_delivery call that found a delivery of the order
\* and returned False.
AfterSkip(g) ==
    [g EXCEPT !.todo = @ - 1, !.attempted = @ + 1, !.selected = Tail(@)]

\* The tick after a _create_<kind> call that stored row id and returned True.
AfterSuccess(g, id) ==
    [g EXCEPT !.todo = @ - 1, !.attempted = @ + 1, !.created = @ + 1,
              !.made = Append(@, id)]

\* NotNull for a table without NOT NULL columns.
NothingRequired(t, row) == TRUE

\* The NOT NULL columns a row of a table must fill that the callers of this
\* model may leave out: Order.delivery_date (nullable=False, no default).
NotNull(t, row) == t = "orders" => row.delivery_date # NoDate

\* One _create_<kind> call of a user, recipe, subscription or order tick: it
\* builds the row and hands it to repository.create, which stores it; or the
\* insert breaks a constraint (IntegrityError, raised as ConflictError), or
\* fails for another reason, and the call returns False with nothing stored.
CreateRecord(w) ==
    LET g == gen[w]
        t == TableOf(g.kind)
    IN  /\ g.pc = "create"
        /\ g.todo > 0
        /\ g.kind # "delivery"
        /\ \E row \in NewRows(g) :
            \/ /\ NotNull(t, row)
               /\ store' = [store EXCEPT ![t] = Append(@, row)]
               /\ gen' = [gen EXCEPT ![w] =
                    [AfterSuccess(g, Len(store[t]) + 1) EXCEPT !.built = <<row>>]]
            \/ /\ gen' = [gen EXCEPT ![w] =
                    [AfterFailure(g) EXCEPT !.built = <<row>>,
                        !.faults = IF NotNull(t, row) THEN @ + 1 ELSE @]]
               /\ UNCHANGED store
        /\ UNCHANGED <<settingsVars, schedVars>>

\* UniqueOrderId for a deliveries table without the constraint.
NoUniqueConstraint(st, oid) == TRUE

\* Delivery.order_id is unique: the insert of a second delivery of an order
\* fails with IntegrityError, which repository.create turns into ConflictError.
UniqueOrderId(st, oid) == DeliveriesOf(st, oid) = {}

\* _create_delivery up to its test: existing = get_by_order_id(order.id); an
\* order that has a delivery is skipped (the call returns False).
DeliveryCheck(w) ==
    LET g == gen[w] IN
    /\ g.pc = "create"
    /\ g.todo > 0
    /\ g.kind = "delivery"
    /\ IF DeliveriesOf(store, Head(g.selected)) # {}
       THEN gen' = [gen EXCEPT ![w] = AfterSkip(g)]
       ELSE gen' = [gen EXCEPT ![w].pc = "insert"]
    /\ UNCHANGED <<settingsVars, schedVars, store>>

\* The outcomes of the random draws of one _create_delivery call: the status
\* random.choices gives with STATUS_WEIGHTS, days_after_order =
\* random.randint(2, 5), and days_offset = random.randint(-1, 1) for a
\* delivered, random.randint(1, 3) for a delayed delivery (no draw, here 0,
\* for the other statuses).
DeliveryDraws ==
    {dr \in [status : WeightedChoices(DELIVERY_STATUSES, STATUS_WEIGHTS), days : 2..5,
             offset : (0 - 1)..3] :
        CASE dr.status = "delivered" -> dr.offset \in (0 - 1)..1
          [] dr.status = "delayed" -> dr.offset \in 1..3
          [] OTHER -> dr.offset = 0}

\* NewDelivery with an actual arrival whatever the status.
NewDeliveryAlwaysArrived(order, oid, draw) ==
    [order_id |-> oid, status |-> draw.status,
     expected_delivery_date |-> order.order_date + draw.days,
     actual_delivery_date |-> order.order_date + draw.days + draw.offset]

\* The row _create_delivery builds for an order from its draws:
\* expected_delivery_date = order.order_date + timedelta(days=days_after_order);
\* actual_delivery_date = expected + timedelta(days=days_offset) for the
\* statuses delivered and delayed, None otherwise.
NewDelivery(order, oid, draw) ==
    [order_id |-> oid, status |-> draw.status,
     expected_delivery_date |-> order.order_date + draw.days,
     actual_delivery_date |->
        IF draw.status \in {"delivered", "delayed"}
        THEN order.order_date + draw.days + draw.offset
        ELSE NoDate]

\* The rest of _create_delivery, with the outcomes draw of its random calls:
\* delivery_repo.create(order_id=order.id, ...) stores the row, or raises
\* (the constraint, or another failure) and the call returns False.
DeliveryInsert(w, draw) ==
    LET g == gen[w]
        oid == Head(g.selected)
        row == NewDelivery(store.orders[oid], oid, draw)
    IN  /\ g.pc = "insert"
        /\ draw \in DeliveryDraws
        /\ \/ /\ UniqueOrderId(store, oid)
              /\ store' = [store EXCEPT !.deliveries = Append(@, row)]
              /\ gen' = [gen EXCEPT ![w] =
                    [AfterSuccess(g, Len(store.deliveries) + 1) EXCEPT
                        !.pc = "create", !.selected = Tail(@), !.built = <<row>>]]
           \/ /\ gen' = [gen EXCEPT ![w] =
                    [AfterFailure(g) EXCEPT !.pc = "create", !.selected = Tail(@),
                        !.built = <<row>>,
                        !.faults = IF UniqueOrderId(store, oid) THEN @ + 1 ELSE @]]
              /\ UNCHANGED store
        /\ UNCHANGED <<settingsVars, schedVars>>

\* The batch is over: the count is logged, the finally clause closes the
\* session, the task returns.
TickEnd(w) ==
    /\ gen[w].pc = "create"
    /\ gen[w].todo = 0
    /\ gen' = [gen EXCEPT ![w].pc = "done", ![w].session = "closed"]
    /\ UNCHANGED <<settingsVars, schedVars, store>>

\* POST /admin/deliveries up to its tests: 404 when the order is not found,
\* 400 when get_by_order_id finds a delivery of the order.
AdminCreateDelivery(w, oid) ==
    /\ gen[w].pc \in {"idle", "done"}
    /\ gen' = [gen EXCEPT ![w] =
            [IdleWorker EXCEPT !.kind = "delivery", !.order_id = oid,
                !.n = gen[w].n + 1, !.session = "open", !.sid = SessionLocal,
                !.pc = IF oid \in Live("orders") /\ DeliveriesOf(store, oid) = {}
                       THEN "admin_insert" ELSE "done",
                !.result = IF oid \notin Live("orders") THEN 404
                           ELSE IF DeliveriesOf(store, oid) # {} THEN 400 ELSE 0]]
    /\ UNCHANGED <<settingsVars, schedVars, store>>

\* A delivery as a client of the admin API describes it (and as the database
\* holds it at the start).
DeliveryRow(oid) ==
    [order_id |-> oid, status |-> "in_transit", expected_delivery_date |-> Today + 3,
     actual_delivery_date |-> NoDate]

\* delivery_repo.create(**delivery_data.model_dump()) and the response: 201,
\* or the error the failed insert is answered with.
AdminInsert(w) ==
    LET g == gen[w] IN
    /\ g.pc = "admin_insert"
    /\ \/ /\ UniqueOrderId(store, g.order_id)
          /\ store' = [store EXCEPT !.deliveries = Append(@, DeliveryRow(g.order_id))]
          /\ gen' = [gen EXCEPT ![w].pc = "done", ![w].result = 201, ![w].created = 1,
                                ![w].made = <<Len(store.deliveries) + 1>>]
       \/ /\ gen' = [gen EXCEPT ![w].pc = "done",
                        ![w].result = IF UniqueOrderId(store, g.order_id) THEN 500 ELSE 409]
          /\ UNCHANGED store
    /\ UNCHANGED <<settingsVars, schedVars>>

\* ------------------------------------------------- the scheduler's life
\* The task modules, named by the job their @scheduler.scheduled_job
\* decorator adds when the module is imported.
TaskModules == JobIds

\* The modules that code other than _register_tasks() imports in this model
\* (a caller of update_order_generation_settings has imported its module).
LifeModules == {"generate_users", "generate_orders"}

\* The modules _register_tasks() imports.
RegisteredModules == {"generate_users", "generate_recipes"}

\* The fire time of a job that has none yet (a job added while the scheduler
\* is stopped waits in the pending list without one).
NoRunTime == 0 - 1

\* The scheduler object at import time: stopped, nothing imported.  enabled
\* is settings.SCHEDULER_ENABLED; pending are the jobs added while stopped and
\* not yet handed to the job store; pc is "stopping" while stop_scheduler()
\* waits in shutdown(wait=True), waited holding the jobs with an execution in
\* flight when it was called; op and nlife record the last start/stop call
\* and their number; raised holds the jobs an execution of which has raised.
NewScheduler(en) ==
    [enabled |-> en, running |-> FALSE, imported |-> {}, pending |-> {},
     pc |-> "idle", waited |-> {}, op |-> "none", nlife |-> 0, raised |-> {}]

\* The job the decorator of a task module makes.
NewJob(nrt) ==
    [interval |-> DefaultInterval, next_run_time |-> nrt, instances |-> 0,
     outcome |-> "none"]

\* The job store and pending list with the jobs of the modules ms added.
WithJobs(js, ms, nrt) ==
    [j \in DOMAIN js \cup ms |-> IF j \in DOMAIN js THEN js[j] ELSE NewJob(nrt)]

\* Some code imports app.core.tasks.<m>: the decorator runs
\* scheduler.add_job, which stores the job with its first fire time if the
\* scheduler runs and puts it in the pending list otherwise.
ImportModule(m) ==
    /\ m \notin sched.imported
    /\ jobs' = WithJobs(jobs, {m}, IF sched.running THEN now + DefaultInterval ELSE NoRunTime)
    /\ sched' = [sched EXCEPT !.imported = @ \cup {m},
                              !.pending = IF sched.running THEN @ ELSE @ \cup {m}]
    /\ UNCHANGED <<settingsVars, now, dataVars>>

\* _register_tasks(): the modules it imports that were not imported before.
RegisterTasks == RegisteredModules \ sched.imported

\* scheduler.start() hands a pending job to the job store, giving it a first
\* fire time if it has none.
RealAddJob(job) ==
    IF job.next_run_time = NoRunTime
    THEN [job EXCEPT !.next_run_time = now + job.interval]
    ELSE job

\* StartScheduler without the SCHEDULER_ENABLED test.
StartEvenIfDisabled == ~sched.running

\* start_scheduler() goes on to register and start: enabled and not running.
StartProceeds == sched.enabled /\ ~sched.running

\* start_scheduler().
StartScheduler ==
    /\ sched.pc = "idle"
    /\ sched.nlife < MaxLifeCalls
    /\ IF StartProceeds
       THEN LET js == WithJobs(jobs, RegisterTasks, NoRunTime) IN
            /\ jobs' = [j \in DOMAIN js |-> RealAddJob(js[j])]
            /\ sched' = [sched EXCEPT !.running = TRUE,
                            !.imported = @ \cup RegisterTasks, !.pending = {},
                            !.op = "start", !.nlife = @ + 1]
       ELSE /\ sched' = [sched EXCEPT !.op = "start", !.nlife = @ + 1]
            /\ UNCHANGED jobs
    /\ UNCHANGED <<settingsVars, now, dataVars>>

\* stop_scheduler() up to the wait inside scheduler.shutdown(wait=True): the
\* scheduler's state becomes stopped and the executor's pool is told to shut
\* down, under the job store's lock.
StopScheduler ==
    /\ sched.pc = "idle"
    /\ sched.nlife < MaxLifeCalls
    /\ IF sched.running
       THEN sched' = [sched EXCEPT !.running = FALSE, !.pc = "stopping",
                        !.waited = {j \in DOMAIN jobs : jobs[j].instances > 0},
                        !.op = "stop", !.nlife = @ + 1]
       ELSE sched' = [sched EXCEPT !.op = "stop", !.nlife = @ + 1, !.waited = {}]
    /\ UNCHANGED <<settingsVars, jobs, now, dataVars>>

\* ShutdownMayReturn for shutdown(wait=False).
ShutdownNoWait == TRUE

\* shutdown(wait=True) returns when no execution is running any more.
ShutdownMayReturn == \A j \in DOMAIN jobs : jobs[j].instances = 0

\* stop_scheduler() returns: the pool has drained, the job store has dropped
\* its jobs (the pending list is kept).
StopReturns ==
    /\ sched.pc = "stopping"
    /\ ShutdownMayReturn
    /\ jobs' = [j \in DOMAIN jobs \cap sched.pending |-> jobs[j]]
    /\ sched' = [sched EXCEPT !.pc = "idle", !.op = "stopped"]
    /\ UNCHANGED <<settingsVars, now, dataVars>>

\* FailJob dropping the job whose execution raised.
RaisedJobRemoved(j) ==
    [x \in DOMAIN jobs \ {j} |-> jobs[x]]

\* The job store after an execution of job j raised: the job is kept, its
\* execution is over.
RaisedJobKept(j) ==
    [jobs EXCEPT ![j].instances = @ - 1, ![j].outcome = "error"]

\* An execution of job j ends with an exception: generate_<kind>_task has a
\* try/finally and no except, so what its unit of work raises leaves the task
\* and is caught where the executor called it.
FailJob(j) ==
    /\ j \in DOMAIN jobs
    /\ jobs[j].instances > 0
    /\ jobs' = RaisedJobKept(j)
    /\ sched' = [sched EXCEPT !.raised = @ \cup {j}]
    /\ UNCHANGED <<settingsVars, now, dataVars>>

\* ------------------------------------------------- the bulk settings update
\* PUT /generation/settings: update_all_generation_settings(settings).  The
\* kinds of a request in the order the handler goes through them; the
\* requests of this model leave recipe and delivery out (None), whose update
\* functions the task modules do not define.
BulkOrder == <<"user", "subscription", "order">>

\* The prefix the handler puts before a kind's error message.
BulkPrefix(k) ==
    CASE k = "user" -> "User generation"
      [] k = "subscription" -> "Subscription generation"
      [] k = "order" -> "Order generation"

\* A kind's part of a request that is left out (None).
Absent == [present |-> FALSE, has_w |-> FALSE, w |-> <<>>, has_i |-> FALSE, i |-> 0]

\* The request under way: its per-kind parts (req), the place of the handler
\* (pc) and the number of kinds it has gone through (idx), the list errors,
\* for the record the kinds whose update function it has called (called),
\* and the response: status 200, 400 with detail "; ".join(errors), held as
\* the sequence of its items, or 422 when the request body does not validate.
IdleBulk ==
    [pc |-> "idle", req |-> [k \in {"user", "subscription", "order"} |-> Absent],
     idx |-> 0, errors |-> <<>>, called |-> <<>>, status |-> 0, detail |-> <<>>]

\* The weights and intervals of the requests of this model: for each kind a
\* vector that passes every check and one that does not, with, for the list
\* kinds, one of the right length whose sum is off.
BulkWeightInputs(k) ==
    CASE k = "user" -> {<<30>>, <<110>>}
      [] k = "subscription" -> {<<80, 10, 10>>, <<50, 30, 10>>, <<50, 50>>}
      [] k = "order" -> {<<25, 25, 25, 25>>, <<40, 40, 40, 0>>}

BulkIntervalInputs == {0, 3}

\* The request parts this model sends for a kind.
BulkParts(k) ==
    {Absent} \cup
    {[present |-> TRUE, has_w |-> hw, w |-> IF hw THEN w ELSE <<>>,
      has_i |-> hi, i |-> IF hi THEN i ELSE 0] :
        hw \in BOOLEAN, hi \in BOOLEAN, w \in BulkWeightInputs(k),
        i \in BulkIntervalInputs}

\* The Field constraints of the request models: male_weight ge=0.0, le=1.0;
\* status_weights min_length = max_length = 3 (subscription) or 4 (order);
\* interval ge=1.
PartValid(k, pt) ==
    /\ (pt.has_w /\ k = "user") => (0 <= pt.w[1] /\ pt.w[1] <= One)
    /\ (pt.has_w /\ k # "user") => Len(pt.w) = RequiredLen(k)
    /\ pt.has_i => pt.i >= 1

RequestValid(req) == \A k \in DOMAIN req : req[k].present => PartValid(k, req[k])

\* The kinds of a request that are present.
Present(req) == {k \in DOMAIN req : req[k].present}

\* The request arrives: FastAPI validates the body against
\* AllGenerationSettings and answers 422 if it fails, otherwise the handler
\* starts with errors = [].
BulkBegin(req) ==
    /\ bulk.pc \in {"idle", "done"}
    /\ calls["c1"].pc \in {"idle", "done"}
    /\ Cardinality(Present(req)) <= MaxCalls - ncalls
    /\ bulk' = IF RequestValid(req)
               THEN [IdleBulk EXCEPT !.pc = "next", !.req = req]
               ELSE [IdleBulk EXCEPT !.pc = "done", !.req = req, !.status = 422]
    /\ UNCHANGED <<settings, lists, calls, ncalls, snap, nmut, schedVars, dataVars>>

\* BulkCalls for a handler that applies a request only if every part of it
\* passes the update functions' checks.
BulkCallsIfAllValid(k) ==
    /\ bulk.req[k].present
    /\ \A x \in Present(bulk.req) :
            /\ bulk.req[x].has_w =>
                    (IF x = "user" THEN MaleWeightError(bulk.req[x].w[1])
                     ELSE StatusWeightsError(x, bulk.req[x].w)) = ""
            /\ bulk.req[x].has_i => IntervalError(bulk.req[x].i) = ""

\* if settings.<kind>: the handler calls the kind's update function when the
\* kind's part is in the request.
BulkCalls(k) == bulk.req[k].present

\* if settings.<kind>: try: update_<kind>_generation_settings(...): the
\* handler's thread enters the kind's update call; a kind that is left out is
\* passed over.
BulkCall ==
    LET k == BulkOrder[bulk.idx + 1]
        pt == bulk.req[k]
    IN  /\ bulk.pc = "next"
        /\ bulk.idx < Len(BulkOrder)
        /\ IF BulkCalls(k)
           THEN /\ StartUpdate("c1", k, pt.has_w, pt.w, pt.has_i, pt.i)
                /\ bulk' = [bulk EXCEPT !.pc = "wait", !.called = Append(@, k)]
           ELSE /\ bulk' = [bulk EXCEPT !.idx = @ + 1]
                /\ UNCHANGED <<settings, lists, calls, ncalls, snap, nmut, schedVars, dataVars>>

\* BulkCollect stopping at the first error.
BulkStopsAtFirstError(errs) == IF errs = <<>> THEN "next" ELSE "respond"

\* After a kind's update call the handler goes on to the next kind, whatever
\* the call's outcome.
BulkGoesOn(errs) == "next"

\* The kind's update call is over: except ValueError as e:
\* errors.append(f"<Kind> generation: {str(e)}").
BulkCollect ==
    LET k == BulkOrder[bulk.idx + 1]
        errs == IF Failed("c1")
                THEN Append(bulk.errors, [prefix |-> BulkPrefix(k), msg |-> calls["c1"].result])
                ELSE bulk.errors
    IN  /\ bulk.pc = "wait"
        /\ Done("c1")
        /\ bulk' = [bulk EXCEPT !.idx = @ + 1, !.errors = errs, !.pc = BulkGoesOn(errs)]
        /\ UNCHANGED <<settings, lists, calls, ncalls, snap, nmut, schedVars, dataVars>>

\* if errors: raise HTTPException(status_code=400, detail="; ".join(errors));
\* otherwise the response with the settings and status 200.
BulkRespond ==
    /\ \/ bulk.pc = "next" /\ bulk.idx = Len(BulkOrder)
       \/ bulk.pc = "respond"
    /\ bulk' = [bulk EXCEPT !.pc = "done",
                    !.status = IF bulk.errors # <<>> THEN 400 ELSE 200,
                    !.detail = bulk.errors]
    /\ UNCHANGED <<settings, lists, calls, ncalls, snap, nmut, schedVars, dataVars>>

\* ------------------------------------------------------------------ init
Init ==
    /\ lists = <<DefaultWeights("subscription"), DefaultWeights("order")>>
    /\ settings = [k \in SettingsKinds |->
            CASE k = "user" -> Dict(DefaultMaleWeight, 0, 0, DefaultInterval)
              [] k = "subscription" -> Dict(0, 0, 1, DefaultInterval)
              [] k = "order" -> Dict(0, 0, 2, DefaultInterval)]
    /\ calls = [c \in Callers |-> IdleCall]
    /\ ncalls = 0
    /\ snap = [kind |-> "user", d |-> NoDict, taken |-> FALSE, seen_w |-> <<>>,
               during |-> {}, clean |-> TRUE]
    /\ nmut = 0
    /\ bulk = IdleBulk
    /\ jobs = [j \in JobIds |->
            [interval |-> DefaultInterval, next_run_time |-> DefaultInterval,
             instances |-> 0, outcome |-> "none"]]
    /\ now = 0
    /\ sched = [NewScheduler(TRUE) EXCEPT !.running = TRUE, !.imported = TaskModules]
    /\ store = EmptyStore
    /\ gen = [w \in Workers |-> IdleWorker]

\* The steps of an update call.
UpdateStep(c) ==
    \/ CheckMaleWeight(c)
    \/ CheckStatusWeights(c)
    \/ CheckInterval(c)
    \/ GetJob(c)
    \/ Reschedule(c)
    \/ Return(c)

\* A thread starts an update call with some arguments.
BeginUpdate(c) ==
    \E k \in SettingsKinds, has_w \in BOOLEAN, has_i \in BOOLEAN :
        \E w \in (IF has_w THEN WeightInputs(k) ELSE {<<>>}),
           i \in (IF has_i THEN IntervalInputs ELSE {0}) :
            StartUpdate(c, k, has_w, w, has_i, i) /\ UNCHANGED bulk

\* The façade used by one request at a time: update calls run one after the
\* other.
Next ==
    \/ BeginUpdate("c1")
    \/ UpdateStep("c1")

Spec == Init /\ [][Next]_vars

\* The update calls whose arguments all pass validation.
BeginValidUpdate(c) ==
    \E k \in SettingsKinds, has_w \in BOOLEAN, has_i \in BOOLEAN :
        \E w \in (IF has_w THEN {w \in WeightInputs(k) :
                                    IF k = "user" THEN MaleWeightError(w[1]) = ""
                                    ELSE StatusWeightsError(k, w) = ""}
                  ELSE {<<>>}),
           i \in (IF has_i THEN {i \in IntervalInputs : IntervalError(i) = ""} ELSE {0}) :
            /\ has_w \/ has_i
            /\ StartUpdate(c, k, has_w, w, has_i, i)
            /\ UNCHANGED bulk

\* The façade used by an updater and, concurrently, by readers that keep and
\* change what the getters returned: their threads interleave.
ReaderNext ==
    \/ BeginValidUpdate("c1")
    \/ UpdateStep("c1")
    \/ \E k \in SettingsKinds : ReadSettings(k)
    \/ SnapSetInterval(1)
    \/ SnapSetItem(1, 0)
    \/ SnapAppend(0)

ReaderSpec == Init /\ [][ReaderNext]_vars

\* The running scheduler and the façade: the jobs tick while update calls
\* with valid arguments change the settings.
SchedNext ==
    \/ ncalls < MaxSchedCalls /\ BeginValidUpdate("c1")
    \/ UpdateStep("c1")
    \/ ProcessJobs
    \/ \E j \in JobIds : FinishJob(j)
    \/ AdvanceTime

SchedSpec == Init /\ [][SchedNext]_vars

\* The update calls that carry only a valid interval, on the kinds whose
\* module has been imported.
BeginIntervalUpdate(c) ==
    \E k \in SettingsKinds, i \in {i \in IntervalInputs : IntervalError(i) = ""} :
        /\ JobOf(k) \in sched.imported
        /\ StartUpdate(c, k, FALSE, <<>>, TRUE, i)
        /\ UNCHANGED bulk

\* The settings stores and their callers at import time.
SettingsInit ==
    /\ lists = <<DefaultWeights("subscription"), DefaultWeights("order")>>
    /\ settings = [k \in SettingsKinds |->
            CASE k = "user" -> Dict(DefaultMaleWeight, 0, 0, DefaultInterval)
              [] k = "subscription" -> Dict(0, 0, 1, DefaultInterval)
              [] k = "order" -> Dict(0, 0, 2, DefaultInterval)]
    /\ calls = [c \in Callers |-> IdleCall]
    /\ ncalls = 0
    /\ snap = [kind |-> "user", d |-> NoDict, taken |-> FALSE, seen_w |-> <<>>,
               during |-> {}, clean |-> TRUE]
    /\ nmut = 0
    /\ bulk = IdleBulk

\* The process from import time on, with SCHEDULER_ENABLED either way: the
\* lifespan's start and stop calls, imports of task modules, the scheduler
\* thread, the executions of the jobs and an update call.
LifeInit ==
    /\ SettingsInit
    /\ jobs = [j \in {} |-> NewJob(NoRunTime)]
    /\ now = 0
    /\ sched \in {NewScheduler(en) : en \in BOOLEAN}
    /\ store = EmptyStore
    /\ gen = [w \in Workers |-> IdleWorker]

LifeNext ==
    \/ StartScheduler
    \/ StopScheduler
    \/ StopReturns
    \/ \E m \in LifeModules : ImportModule(m)
    \/ ncalls < MaxSchedCalls /\ BeginIntervalUpdate("c1")
    \/ UpdateStep("c1")
    \/ ProcessJobs
    \/ \E j \in JobIds : FinishJob(j)
    \/ AdvanceTime

LifeSpec == LifeInit /\ [][LifeNext]_vars

\* The application's process: the lifespan's start and stop calls, the
\* scheduler thread, and the executions of the registered jobs, which end by
\* returning or by raising.
RunNext ==
    \/ StartScheduler
    \/ StopScheduler
    \/ StopReturns
    \/ ProcessJobs
    \/ \E j \in JobIds : FinishJob(j)
    \/ \E j \in JobIds : FailJob(j)
    \/ AdvanceTime

\* The scheduler thread wakes at every fire time, the clock moves on, every
\* execution ends and shutdown returns once the pool has drained.
RunFairSpec ==
    /\ LifeInit
    /\ [][RunNext]_vars
    /\ WF_vars(ProcessJobs)
    /\ WF_vars(AdvanceTime)
    /\ WF_vars(StopReturns)
    /\ \A j \in JobIds : WF_vars(FinishJob(j) \/ FailJob(j))

\* ------------------------------------------------ the ticks on a database
\* Rows as the database holds them when the ticks start.  No insert of this
\* code fills Order.delivery_date, so the orders are rows stored by other
\* means, with the column filled.
UserRow == [deleted |-> FALSE]
SubscriptionRow(st) == [user |-> 1, status |-> st, deleted |-> FALSE]
RecipeRow(p) == [price |-> p, deleted |-> FALSE]
OrderRow(r, amount) ==
    [subscription |-> 1, recipes |-> r, total_amount |-> amount, status |-> "pending",
     order_date |-> Today, delivery_date |-> Today + 7, deleted |-> FALSE]

\* The prices of the recipes in the database at the start: none (None), 0.00
\* and 20.00 (POST /admin/recipes accepts any price that is not negative).
SeedPrices == {NoPrice, 0, 2000}

\* The databases the ticks start on: no user, or a user with no
\* subscription, an Active or a Paused one; up to two recipes; with a
\* subscription, no order or one order, with or without its delivery.
SeedStores ==
    {[users |-> u, subscriptions |-> sb, recipes |-> r, orders |-> o, deliveries |-> d] :
        u \in {<<>>, <<UserRow>>},
        sb \in {<<>>, <<SubscriptionRow("Active")>>, <<SubscriptionRow("Paused")>>},
        r \in {<<>>} \cup {<<RecipeRow(p)>> : p \in SeedPrices}
                \cup {<<RecipeRow(2000), RecipeRow(p)>> : p \in SeedPrices},
        o \in {<<>>, <<OrderRow(<<1>>, 2000)>>},
        d \in {<<>>, <<DeliveryRow(1)>>}}

\* A subscription has a user, an order a subscription, a delivery an order
\* (the foreign keys).
WellFormed(st) ==
    /\ st.subscriptions # <<>> => st.users # <<>>
    /\ st.orders # <<>> => st.subscriptions # <<>>
    /\ st.deliveries # <<>> => st.orders # <<>>

GenInit ==
    /\ SettingsInit
    /\ jobs = [j \in {} |-> NewJob(NoRunTime)]
    /\ now = 0
    /\ sched = NewScheduler(TRUE)
    /\ store \in {st \in SeedStores : WellFormed(st)}
    /\ gen = [w \in Workers |-> IdleWorker]

\* A tick of one of the five generators, with some configuration, on one of
\* the databases above.
GenNext ==
    \/ \E k \in Kinds, en \in BOOLEAN, n \in Counts :
            gen["t1"].pc = "idle" /\ TickBegin("t1", k, en, n)
    \/ TickLoad("t1")
    \/ CreateRecord("t1")
    \/ DeliveryCheck("t1")
    \/ \E draw \in DeliveryDraws : DeliveryInsert("t1", draw)
    \/ TickEnd("t1")

GenSpec == GenInit /\ [][GenNext]_vars

\* The databases of the delivery race: one or two orders, none delivered.
DeliverySeedStores ==
    {[users |-> <<UserRow>>, subscriptions |-> <<SubscriptionRow("Active")>>,
      recipes |-> <<RecipeRow(2000)>>, orders |-> o, deliveries |-> <<>>] :
        o \in {<<OrderRow(<<1>>, 2000)>>, <<OrderRow(<<1>>, 2000), OrderRow(<<1>>, 2000)>>}}

DeliveryInit ==
    /\ SettingsInit
    /\ jobs = [j \in {} |-> NewJob(NoRunTime)]
    /\ now = 0
    /\ sched = NewScheduler(TRUE)
    /\ store \in DeliverySeedStores
    /\ gen = [w \in Workers |-> IdleWorker]

\* The per-tick counts of the racing ticks: one order, or both.
RaceCounts == {1, 2}

\* The draws of the racing ticks: a delivery that arrived a day early.
RaceDraws == {[status |-> "delivered", days |-> 2, offset |-> 0 - 1]}

\* Delivery ticks of two threads and admin create-delivery requests of a
\* third, interleaved step by step.
DeliveryNext ==
    \/ \E w \in Tickers, n \in RaceCounts :
            gen[w].n < MaxRaceTicks /\ TickBegin(w, "delivery", TRUE, n)
    \/ \E w \in Tickers : TickLoad(w)
    \/ \E w \in Tickers : DeliveryCheck(w)
    \/ \E w \in Tickers, draw \in RaceDraws : DeliveryInsert(w, draw)
    \/ \E w \in Tickers : TickEnd(w)
    \/ \E oid \in 1..3 :
            gen["a1"].n < MaxRaceTicks /\ AdminCreateDelivery("a1", oid)
    \/ AdminInsert("a1")

DeliverySpec == DeliveryInit /\ [][DeliveryNext]_vars

\* The delivery generator alone: its ticks one after the other, with any
\* count.
RedeliveryNext ==
    \/ \E n \in Counts :
            gen["t1"].n < MaxTicks /\ TickBegin("t1", "delivery", TRUE, n)
    \/ TickLoad("t1")
    \/ DeliveryCheck("t1")
    \/ \E draw \in DeliveryDraws : DeliveryInsert("t1", draw)
    \/ TickEnd("t1")

RedeliverySpec == DeliveryInit /\ [][RedeliveryNext]_vars

\* The order job and the delivery job on the executor's threads: a tick of
\* each thread, of either job, enabled, with a count of -1 or 1.
SessionNext ==
    \/ \E w \in Tickers, k \in {"order", "delivery"}, n \in {0 - 1, 1} :
            gen[w].n < MaxRaceTicks /\ TickBegin(w, k, TRUE, n)
    \/ \E w \in Tickers : TickLoad(w)
    \/ \E w \in Tickers : CreateRecord(w)
    \/ \E w \in Tickers : DeliveryCheck(w)
    \/ \E w \in Tickers, draw \in RaceDraws : DeliveryInsert(w, draw)
    \/ \E w \in Tickers : TickEnd(w)

SessionSpec == DeliveryInit /\ [][SessionNext]_vars

\* Databases for the order generator: an Active subscription and one to
\* MaxRecipes recipes, the first with any of the prices a recipe may have.
OrderSeedStores ==
    {[users |-> <<UserRow>>, subscriptions |-> <<SubscriptionRow("Active")>>,
      recipes |-> [i \in 1..n |-> RecipeRow(IF i = 1 THEN p ELSE 2000)],
      orders |-> <<>>, deliveries |-> <<>>] : n \in 1..MaxRecipes, p \in SeedPrices}

OrderInit ==
    /\ SettingsInit
    /\ jobs = [j \in {} |-> NewJob(NoRunTime)]
    /\ now = 0
    /\ sched = NewScheduler(TRUE)
    /\ store \in OrderSeedStores
    /\ gen = [w \in Workers |-> IdleWorker]

\* A tick of the order generator that is to create one order.
OrderNext ==
    \/ gen["t1"].pc = "idle" /\ TickBegin("t1", "order", TRUE, 1)
    \/ TickLoad("t1")
    \/ CreateRecord("t1")
    \/ TickEnd("t1")

OrderSpec == OrderInit /\ [][OrderNext]_vars

\* Two threads call the update functions with an interval, their steps
\* interleaved, on the running scheduler.
ConcurrentNext ==
    \/ \E c \in Callers, k \in SettingsKinds, i \in IntervalInputs :
            /\ StartUpdate(c, k, FALSE, <<>>, TRUE, i)
            /\ UNCHANGED bulk
    \/ \E c \in Callers : UpdateStep(c)

ConcurrentSpec == Init /\ [][ConcurrentNext]_vars

\* ------------------------------------------------- the user repository
\* Get without the filter on deleted_at.
GetIncludingDeleted(st, t, id) ==
    IF id \in 1..Len(st[t]) THEN <<st[t][id]>> ELSE <<>>

\* BaseRepository.get(id): select ... filter_by(id=id)
\* .filter(deleted_at.is_(None)); <<>> is None.
Get(st, t, id) ==
    IF id \in 1..Len(st[t]) /\ ~st[t][id].deleted THEN <<st[t][id]>> ELSE <<>>

\* BaseRepository.count(): select count(id) ... filter(deleted_at.is_(None))
Count(st, t) == Cardinality(LiveIn(st, t))

\* The database after BaseRepository.soft_delete(id): update ... where
\* id == id values(deleted_at=utcnow()), whether the row was deleted before
\* or not, and commit.
SoftDeleted(st, t, id) ==
    IF id \in 1..Len(st[t]) THEN [st EXCEPT ![t][id].deleted = TRUE] ELSE st

\* The ids a request or a test may name: those of the rows and one of no row.
UserIds == 1..(Len(store.users) + 1)

\* user_repo.soft_delete(id), called on the repository as the tests do: the
\* row as it now is when rowcount > 0, otherwise None.
RepoSoftDelete(w, id) ==
    /\ gen[w].pc \in {"idle", "done"}
    /\ id \in UserIds
    /\ store' = SoftDeleted(store, "users", id)
    /\ gen' = [gen EXCEPT ![w] =
            [IdleWorker EXCEPT !.n = gen[w].n, !.op = "soft_delete", !.id = id,
                !.found = GetIncludingDeleted(store', "users", id)]]
    /\ UNCHANGED <<settingsVars, schedVars>>

\* user_repo.get(id)
RepoGet(w, id) ==
    /\ gen[w].pc \in {"idle", "done"}
    /\ id \in UserIds
    /\ gen' = [gen EXCEPT ![w] =
            [IdleWorker EXCEPT !.n = gen[w].n, !.op = "get", !.id = id,
                !.found = Get(store, "users", id)]]
    /\ UNCHANGED <<settingsVars, schedVars, store>>

\* DELETE /admin/users/{user_id}: 404 when get finds no user, otherwise
\* soft_delete and 204.
DeleteUser(w, id) ==
    /\ gen[w].pc \in {"idle", "done"}
    /\ id \in UserIds
    /\ store' = IF Get(store, "users", id) = <<>> THEN store
                ELSE SoftDeleted(store, "users", id)
    /\ gen' = [gen EXCEPT ![w] =
            [IdleWorker EXCEPT !.n = gen[w].n, !.op = "delete_user", !.id = id,
                !.result = IF Get(store, "users", id) = <<>> THEN 404 ELSE 204]]
    /\ UNCHANGED <<settingsVars, schedVars>>

\* GET /admin/users with the default skip and limit: the users get_all
\* returns and pagination.total = user_repo.count().
ListUsers(w) ==
    /\ gen[w].pc \in {"idle", "done"}
    /\ gen' = [gen EXCEPT ![w] =
            [IdleWorker EXCEPT !.n = gen[w].n, !.op = "list_users", !.result = 200,
                !.users = Live("users"), !.total = Count(store, "users")]]
    /\ UNCHANGED <<settingsVars, schedVars, store>>

\* A database with two users, as the tests of the users endpoints set it up.
RepoInit ==
    /\ SettingsInit
    /\ jobs = [j \in {} |-> NewJob(NoRunTime)]
    /\ now = 0
    /\ sched = NewScheduler(TRUE)
    /\ store = [EmptyStore EXCEPT !.users = <<UserRow, UserRow>>]
    /\ gen = [w \in Workers |-> IdleWorker]

\* Calls on the user repository and the users endpoints, while the user
\* generator ticks.
RepoNext ==
    \/ \E id \in UserIds : RepoSoftDelete("a1", id)
    \/ \E id \in UserIds : RepoGet("a1", id)
    \/ \E id \in UserIds : DeleteUser("a1", id)
    \/ ListUsers("a1")
    \/ gen["t1"].n < MaxTicks /\ TickBegin("t1", "user", TRUE, 1)
    \/ TickLoad("t1")
    \/ CreateRecord("t1")
    \/ TickEnd("t1")

RepoSpec == RepoInit /\ [][RepoNext]_vars

\* Weight arguments of either sign: Python floats, and the list[float] of
\* the request models, carry negative numbers as well.
SignedWeightInputs(k) ==
    CASE k = "user" -> {<<30>>, <<0 - 10>>}
      [] k = "subscription" -> {<<80, 10, 10>>, <<150, 0 - 50, 0>>, <<50, 50>>}
      [] k = "order" -> {<<25, 25, 25, 25>>, <<0 - 25, 50, 50, 25>>, <<0, 0, 0, 0>>}

\* Two threads call the update functions with weights of either sign.
WeightNext ==
    \/ \E c \in Callers, k \in SettingsKinds : \E w \in SignedWeightInputs(k) :
            /\ StartUpdate(c, k, TRUE, w, FALSE, 0)
            /\ UNCHANGED bulk
    \/ \E c \in Callers :
            \/ CheckMaleWeight(c)
            \/ CheckStatusWeights(c)
            \/ CheckInterval(c)
            \/ Return(c)

WeightSpec == Init /\ [][WeightNext]_vars

\* The settings stores with one for the delivery kind, which
\* generation_settings.py imports from delivery_generation and the spec
\* describes (a 4-element weight vector), at import time.
DeliverySettingsInit ==
    /\ lists = <<DefaultWeights("subscription"), DefaultWeights("order"), STATUS_WEIGHTS>>
    /\ settings = [k \in SettingsKinds \cup {"delivery"} |->
            CASE k = "user" -> Dict(DefaultMaleWeight, 0, 0, DefaultInterval)
              [] k = "subscription" -> Dict(0, 0, 1, DefaultInterval)
              [] k = "order" -> Dict(0, 0, 2, DefaultInterval)
              [] k = "delivery" -> Dict(0, 0, 3, DefaultInterval)]
    /\ calls = [c \in Callers |-> IdleCall]
    /\ ncalls = 0
    /\ snap = [kind |-> "user", d |-> NoDict, taken |-> FALSE, seen_w |-> <<>>,
               during |-> {}, clean |-> TRUE]
    /\ nmut = 0
    /\ bulk = IdleBulk

\* update_delivery_generation_settings(status_weights=w), as the spec
\* describes the update of a weighted kind: a vector of the kind's length
\* whose sum is within 0.01 of 1.0 is stored, any other is rejected.
UpdateDeliveryWeights(c) ==
    LET cl == calls[c] IN
    /\ cl.pc = "check_weights"
    /\ cl.kind = "delivery"
    /\ IF ~cl.has_w
       THEN /\ calls' = [calls EXCEPT ![c].pc = "check_interval"]
            /\ UNCHANGED <<settings, lists>>
       ELSE IF StatusWeightsError(cl.kind, cl.w) # ""
       THEN /\ Raise(c, StatusWeightsError(cl.kind, cl.w))
            /\ UNCHANGED <<settings, lists>>
       ELSE /\ lists' = Append(lists, cl.w)
            /\ settings' = [settings EXCEPT ![cl.kind].status_weights = Len(lists) + 1]
            /\ calls' = [calls EXCEPT ![c].pc = "check_interval"]
    /\ UNCHANGED <<ncalls, snap, nmut, jobs, now, sched, store, gen, bulk>>

\* The kinds whose generator draws a status with a weight vector.
WeightedKinds == {"subscription", "order", "delivery"}

\* The statuses of a weighted kind, in the order of its weights.
StatusesOf(k) ==
    CASE k = "subscription" -> SUBSCRIPTION_STATUSES
      [] k = "order" -> ORDER_STATUSES
      [] k = "delivery" -> DELIVERY_STATUSES

\* The weight vectors the updates of this part carry: for each kind one
\* with zero weights and, for the kinds of the source, one without.
DrawWeights(k) ==
    CASE k = "subscription" -> {<<0, 100, 0>>, <<80, 10, 10>>}
      [] k = "order" -> {<<0, 0, 100, 0>>, <<25, 25, 25, 25>>}
      [] k = "delivery" -> {<<0, 0, 0, 100>>}

\* The draws of the delivery ticks of this part: every status, two days
\* after the order.
DrawDraws == {dr \in DeliveryDraws : dr.days = 2 /\ dr.offset \in {0, 1}}

DrawInit ==
    /\ DeliverySettingsInit
    /\ jobs = [j \in {} |-> NewJob(NoRunTime)]
    /\ now = 0
    /\ sched = NewScheduler(TRUE)
    /\ store \in DeliverySeedStores
    /\ gen = [w \in Workers |-> IdleWorker]

\* Updates of the weights of the weighted kinds and ticks of their
\* generators, one after the other: no tick starts during an update call and
\* no update call during a tick.
DrawNext ==
    \/ \E k \in WeightedKinds : \E w \in DrawWeights(k) :
            /\ gen["t1"].pc \in {"idle", "done"}
            /\ StartUpdate("c1", k, TRUE, w, FALSE, 0)
            /\ UNCHANGED bulk
    \/ CheckStatusWeights("c1")
    \/ UpdateDeliveryWeights("c1")
    \/ CheckInterval("c1")
    \/ Return("c1")
    \/ \E k \in WeightedKinds :
            /\ calls["c1"].pc \in {"idle", "done"}
            /\ gen["t1"].n < MaxTicks
            /\ TickBegin("t1", k, TRUE, 1)
    \/ TickLoad("t1")
    \/ CreateRecord("t1")
    \/ DeliveryCheck("t1")
    \/ \E draw \in DrawDraws : DeliveryInsert("t1", draw)
    \/ TickEnd("t1")

DrawSpec == DrawInit /\ [][DrawNext]_vars

\* The façade's bulk endpoint, one request at a time, on the running
\* scheduler.
BulkNext ==
    \/ \E u \in BulkParts("user"), sb \in BulkParts("subscription"),
          o \in BulkParts("order") :
            BulkBegin([user |-> u, subscription |-> sb, order |-> o])
    \/ BulkCall
    \/ UpdateStep("c1")
    \/ BulkCollect
    \/ BulkRespond

BulkSpec == Init /\ [][BulkNext]_vars

\* ---------------------------------------------------------------- claims

\* A weight argument that meets the documented rule: a male_weight in
\* [0, 1]; a status_weights of the kind's length whose sum is within 0.01 of 1.0.
ValidWeights(k, w) ==
    IF k = "user" THEN 0 <= w[1] /\ w[1] <= One
    ELSE Len(w) = RequiredLen(k) /\ Abs(SumSeq(w) - One) <= Tolerance

\* C1: a read of a kind's settings made while one update call carrying both
\* weights and interval is under way sees either the pair stored when the
\* call was entered or the pair the call carries, never a mix of the two.
C1_NoTornPair ==
    (snap.taken /\ snap.clean /\ Cardinality(snap.during) = 1) =>
        \A c \in Callers :
            (calls[c].id \in snap.during /\ calls[c].has_w /\ calls[c].has_i) =>
                \/ snap.seen_w = calls[c].pre_w /\ snap.d.interval = calls[c].pre_i
                \/ snap.seen_w = calls[c].w /\ snap.d.interval = calls[c].i

\* C2: an update call carrying a valid weight field and an interval below 1
\* ends in a validation error with the stored weights and the stored interval
\* as they were when the call was entered.
C2_FailedCallAppliesNothing ==
    \A c \in Callers :
        (Done(c) /\ calls[c].has_w /\ ValidWeights(calls[c].kind, calls[c].w)
                 /\ calls[c].has_i /\ calls[c].i < 1) =>
            /\ Failed(c)
            /\ StoredWeights(calls[c].kind) = calls[c].pre_w
            /\ settings[calls[c].kind].interval = calls[c].pre_i

\* C3: an update call whose status_weights has the wrong length, or a sum
\* more than 0.01 from 1.0, ends in a validation error, and get_settings then
\* returns the vector (and interval) stored before the call.
C3_InvalidWeightsRejected ==
    \A c \in Callers :
        (Done(c) /\ calls[c].kind \in ListKinds /\ calls[c].has_w
                 /\ (\/ Len(calls[c].w) # RequiredLen(calls[c].kind)
                     \/ Abs(SumSeq(calls[c].w) - One) > Tolerance)) =>
            /\ Failed(c)
            /\ lists[GetSettings(calls[c].kind).status_weights] = calls[c].pre_w
            /\ GetSettings(calls[c].kind).interval = calls[c].pre_i

\* C3's case: a call with a wrong-length vector and one with a sum of 0.9
\* have ended.
C3_Witness ==
    \E c \in Callers :
        /\ Failed(c)
        /\ calls[c].kind = "subscription"
        /\ calls[c].has_w
        /\ calls[c].w = <<50, 30, 10>>
        /\ calls[c].id = 2

\* C4: an update call whose status_weights has the kind's length and a sum
\* within 0.01 of 1.0 (and whose interval, if any, is at least 1) succeeds,
\* and get_settings then returns exactly that vector.
C4_ValidWeightsAccepted ==
    \A c \in Callers :
        (Done(c) /\ calls[c].kind \in ListKinds /\ calls[c].has_w
                 /\ ValidWeights(calls[c].kind, calls[c].w)
                 /\ (calls[c].has_i => calls[c].i >= 1)) =>
            /\ Succeeded(c)
            /\ lists[GetSettings(calls[c].kind).status_weights] = calls[c].w

\* C5: a change made to the dict a getter returned, or to the weight vector
\* in it, changes neither what the getters return afterwards nor the weights
\* the generators draw with.
C5_ReturnedDictIsACopy ==
    [][nmut' > nmut =>
        \A k \in SettingsKinds :
            /\ GetSettings(k)' = GetSettings(k)
            /\ StoredWeights(k)' = StoredWeights(k)
            /\ SamplerWeights(k)' = SamplerWeights(k)]_vars

CallStep(c) == calls[c].pc \notin {"idle", "done"} /\ calls'[c] # calls[c]

\* The step of thread c that calls scheduler.reschedule_job.
RescheduleStep(c) == calls[c].pc = "reschedule" /\ calls'[c].pc # "reschedule"

\* A step in which job j's pending fire time passes without a reschedule: the
\* scheduler's tick of job j.
TickOf(j) ==
    /\ jobs[j].next_run_time <= now
    /\ jobs'[j].next_run_time > now
    /\ \A c \in Callers : ~(RescheduleStep(c) /\ JobOf(calls[c].kind) = j)

\* C7: a successful update call that carries an interval has rescheduled the
\* kind's job to that interval (its next fire time one interval after the
\* reschedule); no step of a call that carries only weights changes any job.
C7_RescheduleOnlyOnInterval ==
    /\ [](\A c \in Callers :
            /\ (Succeeded(c) /\ calls[c].has_i) =>
                    jobs[JobOf(calls[c].kind)].interval = calls[c].i
            /\ calls[c].pc \in {"get_job", "reschedule"} => calls[c].has_i)
    /\ [][\A c \in Callers :
            CallStep(c) =>
                IF RescheduleStep(c)
                THEN jobs' = [jobs EXCEPT
                        ![JobOf(calls[c].kind)].interval = calls[c].i,
                        ![JobOf(calls[c].kind)].next_run_time = now + calls[c].i]
                ELSE jobs' = jobs]_vars

\* C7's case: a call carrying an interval has succeeded and the job has the
\* new interval, after the job had ticked with the old one.
C7_Witness ==
    \E c \in Callers :
        /\ Succeeded(c)
        /\ calls[c].has_i
        /\ calls[c].i = 3
        /\ calls[c].kind = "subscription"
        /\ jobs["generate_subscriptions"].interval = 3
        /\ jobs["generate_subscriptions"].outcome = "submitted"

\* C8: no job ever has more than one execution running; an execution of a
\* job starts only at a tick of that job while none is running, so a tick
\* that comes while one is running starts nothing, then or later.
C8_SingleInstance ==
    /\ [](\A j \in JobIds : jobs[j].instances <= 1)
    /\ [][\A j \in JobIds :
            /\ jobs'[j].instances > jobs[j].instances =>
                    jobs[j].instances = 0 /\ TickOf(j)
            /\ (TickOf(j) /\ jobs[j].instances > 0) =>
                    /\ jobs'[j].instances = jobs[j].instances
                    /\ jobs'[j].outcome = "max_instances"]_vars

\* C8's case: a job's tick came while its previous execution was running and
\* was skipped.
C8_Witness ==
    \E j \in JobIds : jobs[j].outcome = "max_instances" /\ jobs[j].instances = 1

\* C9: a reschedule keeps the job (the same id, its running execution and
\* its instance count), starts no execution, and sets the next fire time one
\* new interval ahead; every tick comes at the job's fire time and sets the
\* next fire time one interval later; at most one execution runs.
C9_RescheduleInPlace ==
    /\ [](\A j \in JobIds :
            /\ jobs[j].instances <= MaxInstances
            /\ jobs[j].next_run_time >= now
            /\ jobs[j].next_run_time <= now + jobs[j].interval)
    /\ [][/\ DOMAIN jobs' = DOMAIN jobs
          /\ \A c \in Callers :
                RescheduleStep(c) =>
                    LET j == JobOf(calls[c].kind) IN
                    /\ jobs'[j].instances = jobs[j].instances
                    /\ jobs'[j].outcome = jobs[j].outcome
                    /\ jobs'[j].interval = calls[c].secs
                    /\ jobs'[j].next_run_time = now + calls[c].secs
          /\ \A j \in JobIds :
                TickOf(j) =>
                    /\ jobs[j].next_run_time = now
                    /\ jobs'[j].next_run_time = now + jobs[j].interval]_vars

\* C9's case: a job rescheduled from the default interval to 1 second has
\* ticked one second later, and again a second after that.
C9_Witness ==
    /\ jobs["generate_users"].interval = 1
    /\ jobs["generate_users"].interval # DefaultInterval
    /\ jobs["generate_users"].outcome = "max_instances"
    /\ now = 2
    /\ jobs["generate_users"].next_run_time = 3

\* C10: no step of an update call on one kind changes any other job (its
\* interval, next fire time, running execution) or any other kind's settings.
C10_OtherJobsUntouched ==
    [][\A c \in Callers :
        CallStep(c) =>
            /\ \A j \in JobIds \ {JobOf(calls[c].kind)} : jobs'[j] = jobs[j]
            /\ \A k \in SettingsKinds \ {calls[c].kind} :
                    /\ settings'[k] = settings[k]
                    /\ StoredWeights(k)' = StoredWeights(k)]_vars

\* C10's case: the order job was rescheduled while the user job had an
\* execution running and a pending fire time of its own.
C10_Witness ==
    \E c \in Callers :
        /\ Succeeded(c)
        /\ calls[c].has_i
        /\ calls[c].kind = "order"
        /\ jobs["generate_orders"].interval = 3
        /\ jobs["generate_orders"].next_run_time = 6
        /\ jobs["generate_users"].interval = DefaultInterval
        /\ jobs["generate_users"].instances = 1
        /\ jobs["generate_users"].next_run_time = 4

\* The step in which a start_scheduler() call is made, and the one in which
\* stop_scheduler() returns from its wait.
StartStep == sched'.nlife = sched.nlife + 1 /\ sched'.op = "start"
StopReturnStep == sched.pc = "stopping" /\ sched'.pc = "idle"

\* A step in which an execution of some job starts.
TickStarts ==
    \E j \in DOMAIN jobs' :
        IF j \in DOMAIN jobs THEN jobs'[j].instances > jobs[j].instances
        ELSE jobs'[j].instances > 0

\* C11: with SCHEDULER_ENABLED false the scheduler never runs and no job ever
\* fires or has an execution, whatever start, stop, import and update calls
\* are made; a start_scheduler() call changes no job, imports nothing and
\* leaves the settings alone.
C11_DisabledNeverFires ==
    /\ [](~sched.enabled =>
            /\ ~sched.running
            /\ sched.pc = "idle"
            /\ \A j \in DOMAIN jobs :
                    jobs[j].instances = 0 /\ jobs[j].outcome = "none")
    /\ [][(~sched.enabled /\ StartStep) =>
            /\ jobs' = jobs
            /\ sched' = [sched EXCEPT !.op = "start", !.nlife = @ + 1]
            /\ UNCHANGED <<settingsVars, now, dataVars>>]_vars
    /\ [][~sched.enabled => ~TickStarts]_vars

\* C11's case: on a disabled scheduler start, stop and start again were
\* called and an update call rescheduled the order job, whose fire time has
\* since passed.
C11_Witness ==
    /\ ~sched.enabled
    /\ sched.nlife >= 3
    /\ sched.op = "start"
    /\ \E c \in Callers :
        /\ Succeeded(c)
        /\ calls[c].has_i
        /\ calls[c].kind = "order"
        /\ jobs["generate_orders"].interval = calls[c].i
        /\ jobs["generate_orders"].next_run_time # NoRunTime
        /\ jobs["generate_orders"].next_run_time < now

\* C12: a start_scheduler() call on an enabled scheduler that is not running
\* leaves it running with all five generator jobs registered, each with a
\* fire time ahead; a call on a running scheduler changes no job and
\* registers nothing.
C12_StartRegistersAllFive ==
    [][StartStep =>
        /\ (sched.enabled /\ ~sched.running) =>
                /\ sched'.running
                /\ \A j \in JobIds :
                        /\ j \in DOMAIN jobs'
                        /\ jobs'[j].next_run_time # NoRunTime
        /\ sched.running =>
                /\ jobs' = jobs
                /\ sched'.imported = sched.imported
                /\ sched'.running]_vars

\* C13: stop_scheduler() returns only when no execution is running any more
\* (the executions in flight at the call have ended by returning or raising,
\* not by being dropped); while the scheduler is stopped no execution
\* starts; and a stop call that waits does return.
C13_GracefulStop ==
    /\ [][StopReturnStep =>
            \A j \in DOMAIN jobs : jobs[j].instances = 0]_vars
    /\ [][sched.pc = "stopping" =>
            \A j \in DOMAIN jobs :
                j \in DOMAIN jobs' /\ jobs'[j].instances < jobs[j].instances =>
                    jobs'[j].instances = jobs[j].instances - 1]_vars
    /\ [][~sched.running => ~TickStarts]_vars
    /\ (sched.pc = "stopping") ~> (sched.pc = "idle" /\ ~sched.running)

\* C13's case: stop_scheduler() was called with an execution in flight and
\* has returned.
C13_Witness ==
    /\ sched.op = "stopped"
    /\ sched.waited # {}
    /\ ~sched.running

\* A step in which an execution of job j ends by raising.
FailStep(j) ==
    /\ j \in DOMAIN jobs
    /\ jobs[j].instances > 0
    /\ \/ j \notin DOMAIN jobs'
       \/ jobs'[j].outcome = "error" /\ jobs'[j].instances < jobs[j].instances

\* C14: when an execution of a job raises, the scheduler's state is as it
\* was, every other job is untouched, and the job stays registered with its
\* interval and its next fire time; and if that fire time is within the
\* clock's range the job is submitted again unless the scheduler is stopped first.
C14_JobSurvivesFailure ==
    /\ [][\A j \in JobIds :
            FailStep(j) =>
                /\ j \in DOMAIN jobs'
                /\ jobs'[j].interval = jobs[j].interval
                /\ jobs'[j].next_run_time = jobs[j].next_run_time
                /\ jobs'[j].instances = jobs[j].instances - 1
                /\ \A x \in DOMAIN jobs \ {j} : x \in DOMAIN jobs' /\ jobs'[x] = jobs[x]
                /\ sched'.running = sched.running
                /\ sched'.pc = sched.pc]_vars
    /\ \A j \in JobIds :
            (/\ sched.running
             /\ j \in DOMAIN jobs
             /\ jobs[j].outcome = "error"
             /\ jobs[j].next_run_time <= MaxTime)
            ~> (\/ ~sched.running
                \/ j \in DOMAIN jobs /\ jobs[j].outcome = "submitted")

\* C14's case: a job an execution of which raised has been submitted again
\* at its next fire time, on a running scheduler.
C14_Witness ==
    \E j \in DOMAIN jobs :
        /\ j \in sched.raised
        /\ sched.running
        /\ jobs[j].outcome = "submitted"
        /\ jobs[j].instances = 1

\* C15: no order has two deliveries, whatever the interleaving of the two
\* ticking threads and the admin request.
C15_OneDeliveryPerOrder ==
    \A o \in 1..Len(store.orders) : Cardinality(DeliveriesOf(store, o)) <= 1

\* C15's case: the admin request passed its test for an existing delivery,
\* a tick stored the order's delivery first, and the request's insert was
\* refused; both orders have their delivery.
C15_Witness ==
    /\ gen["a1"].result = 409
    /\ \E w \in Tickers : gen[w].created >= 1
    /\ Len(store.orders) = 2
    /\ \A o \in 1..2 : Cardinality(DeliveriesOf(store, o)) = 1

\* A finished tick of thread t1, and the database it found.
TickDone == gen["t1"].pc = "done"
Found == gen["t1"].before

\* The orders that had no delivery in database st.
LackingIn(st) == {o \in LiveIn(st, "orders") : DeliveriesOf(st, o) = {}}

\* C16: a delivery tick with count >= 1 that finds exactly one order without
\* a delivery, and in which no create call fails, stores exactly one delivery
\* and it is that order's; no step of a later tick (or of this one) adds a
\* delivery to an order that has one.
C16_OneTickOneDelivery ==
    /\ [](\A o \in 1..Len(store.orders) :
            (/\ TickDone
             /\ gen["t1"].kind = "delivery"
             /\ gen["t1"].count >= 1
             /\ LackingIn(Found) = {o}
             /\ gen["t1"].errors = 0) =>
                /\ gen["t1"].created = 1
                /\ Len(gen["t1"].made) = 1
                /\ Len(store.deliveries) = Len(Found.deliveries) + 1
                /\ DeliveriesOf(store, o) = {gen["t1"].made[1]})
    /\ [][\A o \in 1..Len(store.orders) :
            DeliveriesOf(store, o) # {} => DeliveriesOf(store', o) = DeliveriesOf(store, o)]_vars

\* C16's case: of two orders the first tick delivered one; the second tick,
\* with count 2, found the other as the only order without a delivery and
\* stored one delivery.
C16_Witness ==
    /\ TickDone
    /\ gen["t1"].kind = "delivery"
    /\ gen["t1"].n = 2
    /\ gen["t1"].count = 2
    /\ Len(Found.deliveries) = 1
    /\ gen["t1"].created = 1
    /\ Len(store.deliveries) = 2

\* The prerequisite data of a kind's tick is there in database st.
PrerequisitesIn(k, st) ==
    CASE k \in {"user", "recipe"} -> TRUE
      [] k = "subscription" -> LiveIn(st, "users") # {}
      [] k = "order" ->
            /\ {i \in LiveIn(st, "subscriptions") : st.subscriptions[i].status = "Active"} # {}
            /\ LiveIn(st, "recipes") # {}
      [] k = "delivery" -> LackingIn(st) # {}

\* The tick stored nothing and ended without an exception.
NothingCreated ==
    /\ store = Found
    /\ gen["t1"].made = <<>>
    /\ gen["t1"].created = 0
    /\ ~gen["t1"].raised

\* C17: a subscription tick that finds no user, an order tick that finds no
\* Active subscription or no recipe, and a delivery tick that finds no order
\* without a delivery store nothing and end without an exception, with the
\* session closed.
C17_NoPrerequisiteNoRecords ==
    (/\ TickDone
     /\ gen["t1"].kind \in {"subscription", "order", "delivery"}
     /\ ~PrerequisitesIn(gen["t1"].kind, Found)) =>
        /\ NothingCreated
        /\ gen["t1"].attempted = 0
        /\ gen["t1"].session \in {"none", "closed"}

\* C17's case: an enabled order tick with a positive count has ended on a
\* database with a recipe and a subscription that is not Active.
C17_Witness ==
    /\ TickDone
    /\ gen["t1"].kind = "order"
    /\ gen["t1"].enabled
    /\ gen["t1"].count = 2
    /\ Found.recipes # <<>>
    /\ Found.subscriptions # <<>>
    /\ Found.subscriptions[1].status = "Paused"
    /\ gen["t1"].session = "closed"

\* The sum of the prices of the recipes of a sequence of recipe ids, None
\* counting as nothing.
RECURSIVE PriceSum(_, _)
PriceSum(recs, rows) ==
    IF recs = <<>> THEN 0
    ELSE (IF rows[Head(recs)].price = NoPrice THEN 0 ELSE rows[Head(recs)].price)
         + PriceSum(Tail(recs), rows)

\* A finished tick whose kind is enabled, whose count is positive and whose
\* prerequisite data was there.
BatchDone ==
    /\ TickDone
    /\ gen["t1"].n > 0
    /\ gen["t1"].count >= 1
    /\ gen["t1"].enabled
    /\ PrerequisitesIn(gen["t1"].kind, Found)

\* C18: an enabled order tick with count N >= 1 that finds an Active
\* subscription and a recipe, and in which the database does not fail, stores
\* N orders; every order stored whose sampled recipes include one with a
\* price has total_amount equal to the sum of their prices; on a database
\* with one recipe, priced 20.00, every order stored has total_amount 20.00
\* and one recipe.
C18_TotalIsSumOfPrices ==
    (BatchDone /\ gen["t1"].kind = "order" /\ gen["t1"].faults = 0) =>
        /\ gen["t1"].created = gen["t1"].count
        /\ \A i \in 1..Len(gen["t1"].made) :
            LET o == store.orders[gen["t1"].made[i]] IN
            /\ (\E j \in 1..Len(o.recipes) : store.recipes[o.recipes[j]].price # NoPrice) =>
                    o.total_amount = PriceSum(o.recipes, store.recipes)
            /\ (Found.recipes = <<RecipeRow(2000)>>) =>
                    o.total_amount = 2000 /\ Len(o.recipes) = 1

\* The number of create calls a tick with count n makes on database st: n,
\* and for the delivery tick at most the number of orders without a delivery.
Attempts(k, n, st) ==
    IF k = "delivery" THEN Min(n, Cardinality(LackingIn(st))) ELSE n

\* The accounts of a finished batch: no exception left the tick, every create
\* call either stored a row or was counted as an error, the count of
\* successes is the number of rows stored, and the session is closed.
BatchAccounts ==
    LET g == gen["t1"]
        t == TableOf(g.kind)
    IN  /\ ~g.raised
        /\ g.todo = 0
        /\ g.created + g.errors = g.attempted
        /\ g.created = Len(g.made)
        /\ Len(store[t]) = Len(Found[t]) + g.created
        /\ g.session = "closed"

C20_DisabledKindCreatesNothing ==
    (TickDone /\ gen["t1"].n > 0 /\ (~gen["t1"].enabled \/ gen["t1"].count <= 0)) =>
        NothingCreated

\* C21: a thread that is not inside a tick holds no open session, however
\* its last tick ended (batch done, early return, exception); the sessions
\* of two threads are different objects, and the session a tick opens is
\* none of those opened before.
C21_SessionsClosed ==
    /\ [](\A w \in Tickers :
            /\ gen[w].pc \in {"idle", "done"} => gen[w].session # "open"
            /\ \A x \in Tickers \ {w} : gen[w].sid # 0 => gen[w].sid # gen[x].sid)
    /\ [][\A w \in Tickers :
            (gen[w].n' > gen[w].n /\ gen[w].sid' # 0) =>
                \A x \in Workers : gen[w].sid' # gen[x].sid]_vars

\* C21's case: the delivery tick of one thread has ended with an exception,
\* the order tick of the other after its batch, and both sessions are closed.
C21_Witness ==
    /\ gen["t1"].pc = "done" /\ gen["t1"].kind = "delivery" /\ gen["t1"].raised
    /\ gen["t1"].session = "closed"
    /\ gen["t2"].pc = "done" /\ gen["t2"].kind = "order" /\ gen["t2"].attempted = 1
    /\ gen["t2"].session = "closed"
    /\ gen["t1"].sid # gen["t2"].sid

\* The kinds of a request whose part breaks the documented rules: a weight
\* field that is not valid, or an interval below 1.
FailingKinds(req) ==
    {k \in Present(req) :
        \/ req[k].has_w /\ ~ValidWeights(k, req[k].w)
        \/ req[k].has_i /\ req[k].i < 1}

BulkDone == bulk.pc = "done" /\ bulk.status # 422

WeightOf(k, st, w) ==
    LET i == CHOOSE i \in 1..Len(StatusesOf(k)) : StatusesOf(k)[i] = st IN w[i]

\* C23: once an update call with a new weight vector for a weighted kind has
\* succeeded, every record a tick of that kind's generator stores (the ticks
\* start after the update) has a status to which the new vector gives a
\* positive weight.
C23_NewWeightsUsed ==
    [][\A k \in WeightedKinds :
        (/\ Succeeded("c1") /\ calls["c1"].kind = k /\ calls["c1"].has_w
         /\ gen["t1"].kind = k
         /\ Len(store'[TableOf(k)]) > Len(store[TableOf(k)])) =>
            WeightOf(k, store'[TableOf(k)][Len(store'[TableOf(k)])].status,
                     calls["c1"].w) > 0]_vars

\* The length of the weight vector a kind's sampler needs: one weight per
\* outcome.
RequiredLength(k) == IF k = "user" THEN 2 ELSE Len(StatusesOf(k))

\* C24: in every reachable state the weight vector each generator passes to
\* the weighted sampler has the kind's required length, has no negative
\* entry and sums to 1.0 within 0.01.
C24_SamplerWeightsWellFormed ==
    \A k \in SettingsKinds :
        /\ Len(SamplerWeights(k)) = RequiredLength(k)
        /\ \A i \in 1..Len(SamplerWeights(k)) : SamplerWeights(k)[i] >= 0
        /\ Abs(SumSeq(SamplerWeights(k)) - One) <= Tolerance

C26_DeletedUsersCounted ==
    (/\ gen["a1"].op = "list_users"
     /\ Len(store.users) = 2
     /\ Cardinality(Live("users")) = 1) => gen["a1"].total = 2

\* C27: every order the order generator builds for order_repo.create (and
\* so every order it creates) has between 1 and min(4, number of available
\* recipes) recipes, pairwise distinct, and a total_amount that is not
\* negative.
C27_OrderRecipesAndTotal ==
    \A w \in Tickers :
        (gen[w].kind = "order" /\ gen[w].built # <<>>) =>
            LET row == gen[w].built[1] IN
            /\ Len(row.recipes) \in 1..Min(4, Cardinality(gen[w].recs))
            /\ \A i, j \in 1..Len(row.recipes) :
                    row.recipes[i] = row.recipes[j] => i = j
            /\ row.total_amount >= 0

\* The order tick has built an order with four of five available recipes.
C27_Witness ==
    /\ gen["t1"].kind = "order"
    /\ gen["t1"].built # <<>>
    /\ Cardinality(gen["t1"].recs) = 5
    /\ Len(gen["t1"].built[1].recipes) = 4

\* C28: every delivery the delivery generator creates is expected d days
\* after its order's date with d in 2..5; its actual arrival is the expected
\* one plus k days with k in -1..1 when it is delivered and k in 1..3 when it
\* is delayed, and is absent when it is failed or in_transit.
C28_DeliveryDates ==
    \A w \in Tickers :
        gen[w].kind = "delivery" =>
            \A n \in 1..Len(gen[w].made) :
                LET d == store.deliveries[gen[w].made[n]]
                    o == store.orders[d.order_id]
                IN  /\ d.expected_delivery_date - o.order_date \in 2..5
                    /\ CASE d.status = "delivered" ->
                                /\ d.actual_delivery_date # NoDate
                                /\ d.actual_delivery_date - d.expected_delivery_date
                                        \in (0 - 1)..1
                          [] d.status = "delayed" ->
                                /\ d.actual_delivery_date # NoDate
                                /\ d.actual_delivery_date - d.expected_delivery_date
                                        \in 1..3
                          [] OTHER -> d.actual_delivery_date = NoDate

\* A tick has created a delivery that arrived a day early and one that
\* failed.
C28_Witness ==
    /\ gen["t1"].kind = "delivery"
    /\ \E n \in 1..Len(gen["t1"].made) :
            LET d == store.deliveries[gen["t1"].made[n]] IN
            /\ d.status = "delivered"
            /\ d.actual_delivery_date = d.expected_delivery_date - 1
    /\ \E n \in 1..Len(gen["t1"].made) :
            store.deliveries[gen["t1"].made[n]].status = "failed"

\* An update call for a kind is under way.
InProgress(k) ==
    \E c \in Callers : calls[c].kind = k /\ calls[c].pc \notin {"idle", "done"}

\* C29: whenever no update call for a kind is in progress, the interval of
\* the kind's job is the interval stored in the kind's settings, also after
\* two update calls with different intervals for the kind ran concurrently.
C29_JobIntervalIsStoredInterval ==
    \A k \in SettingsKinds :
        ~InProgress(k) => jobs[JobOf(k)].interval = settings[k].interval

====
